---- MODULE Spec2Model ----
(***************************************************************************)
(* Model of pdt.py: the persisted-derived-table (PDT) regeneration engine. *)
(*                                                                         *)
(* A view is named by its position in the load order (the insertion order  *)
(* of LookerContext.views), so views.values() iterates 1, 2, ..., n.  A    *)
(* SQL template is the sequence of its lines that carry ${view.field}      *)
(* markers; a line is the sequence of the view names its markers name.     *)
(* The warehouse is the committed state `tables` plus the working state    *)
(* `tx_tables` of the open transaction; the trigger-value store is one     *)
(* pickle file per view.                                                   *)
(***************************************************************************)
EXTENDS Integers, Sequences, FiniteSets, TLC

\* ---------------------------------------------------------------- bounds
NumViews == 3      \* views loaded in SpecOrder
RunViews == 3      \* views loaded in Spec
MaxMarkers == 2    \* markers per template in SpecOrder
RunMarkers == 1    \* markers per template in Spec
MaxRuns == 2       \* invocations of LookerContext.trigger_all
MaxTrigger == 2    \* non-NULL trigger values 1..MaxTrigger

\* ------------------------------------------------------- program values
PyNone == 0        \* Python None: SQL NULL, and the getter's "no file"
Unbound == -1      \* a local variable that was never assigned
NoView == 0        \* no view (views are 1..n)

VARIABLES
    views,                  \* LookerContext.views: view_objects in load order
    adjacency_lists,        \* view_topological_order: adjacency_lists
    ordered_view_names,     \* view_topological_order: ordered_view_names
    permanent_visit_set,
    temporary_visit_set,
    stack,                  \* call stack of visit(): frames [view_name, j]
    entry_i,                \* position of the entry loop over views.values()
    pc,                     \* position in LookerContext.trigger_all
    view_name_order,        \* trigger_all: view_name_order
    loop_i,                 \* position of the loop over view_name_order
    transaction,            \* the object bound to trigger_all's `transaction`
    has_table,              \* trigger_view: has_table
    latest_trigger_value,   \* trigger_view: latest_trigger_value
    tables,                 \* warehouse, committed: looker_scratch._<view>
    tx_tables,              \* warehouse as seen inside the open transaction
    store,                  \* <view>.pickle files
    sql_log,                \* statements issued through connection.execute
    exc,                    \* exception in flight or that ended the run
    exc_view,               \* the view it was raised for
    exc_stage,              \* the step that raised it
    outcome,                \* how trigger_all ended: returned or raised
    raised,                 \* the exception that left trigger_all, if one did
    runs,                   \* invocations of trigger_all so far
    status,                 \* per view, this run: pending/skipped/updated/failed
    written,                \* views whose pickle file was written in this run
    observed,               \* per view, the trigger value queried in this run
    store0,                 \* store at the start of this run
    tables0,                \* tables at the start of this run
    env_fault               \* a warehouse or file-system call failed in this run

topo_vars == <<adjacency_lists, ordered_view_names, permanent_visit_set,
               temporary_visit_set, stack, entry_i>>
view_vars == <<has_table, latest_trigger_value>>
db_vars == <<tables, tx_tables, store>>
hist_vars == <<status, written, observed, store0, tables0, env_fault>>
exc_vars == <<exc, exc_view, exc_stage>>
end_vars == <<outcome, raised>>
vars == <<views, topo_vars, pc, view_name_order, loop_i, transaction,
          view_vars, db_vars, sql_log, exc_vars, end_vars, runs, hist_vars>>

\* ------------------------------------------------------------- helpers
SeqsUpTo(S, n) == UNION {[1..k -> S] : k \in 0..n}

Range(s) == {s[i] : i \in 1..Len(s)}

RECURSIVE SumLen(_)
SumLen(t) == IF t = <<>> THEN 0 ELSE Len(Head(t)) + SumLen(Tail(t))

Perms(S) == {s \in [1..Cardinality(S) -> S] : \A i, j \in 1..Cardinality(S) :
                 s[i] = s[j] => i = j}

ViewNames == 1..Len(views)

\* Templates over the marker names `names` with at most m markers in all.
Templates(names, m) ==
    {t \in SeqsUpTo(SeqsUpTo(names, m) \ {<<>>}, m) : SumLen(t) <= m}

\* The declarations a view can have: a base table, a derived table without
\* sql_trigger_value, a persisted derived table.
ViewObjects(names, m) ==
    {[derived_table |-> FALSE, sql_trigger_value |-> FALSE, sql |-> <<>>]}
    \cup {[derived_table |-> TRUE, sql_trigger_value |-> FALSE, sql |-> t] :
             t \in Templates(names, 1)}
    \cup {[derived_table |-> TRUE, sql_trigger_value |-> TRUE, sql |-> t] :
             t \in Templates(names, m)}

\* ---------------------------------------------------------- LookerView
is_derived_table(v) == views[v].derived_table

is_persisted_derived_table(v) ==
    is_derived_table(v) /\ views[v].sql_trigger_value

\* re.finditer("\${\s*(.+)\s*}", sql): `.` does not match a newline and `.+`
\* is greedy, so a line gives one match, from its first "${" to its last "}".
\* group(1).split('.') then has one part more than the line has markers, and
\* its first part is the view named by the first marker.
SplitParts(line) == Len(line) + 1

\* The first line on which `view_name, _ = param.split('.')` or
\* `looker_context.views[view_name]` raises; 0 if none does.
LineError(line) ==
    IF SplitParts(line) # 2 THEN "ValueError"
    ELSE IF line[1] \notin ViewNames THEN "KeyError"
    ELSE "none"

RECURSIVE ScanSql(_, _)
ScanSql(sql, acc) ==
    IF sql = <<>> THEN [err |-> "none", deps |-> acc]
    ELSE IF LineError(Head(sql)) # "none"
         THEN [err |-> LineError(Head(sql)), deps |-> acc]
         ELSE ScanSql(Tail(sql), acc \cup {Head(sql)[1]})

view_dependencies(v) ==
    IF ~is_derived_table(v) THEN [err |-> "none", deps |-> {}]
    ELSE IF is_persisted_derived_table(v) THEN ScanSql(views[v].sql, {})
    ELSE [err |-> "none", deps |-> {}]

\* -------------------------------------- LookerContext.view_topological_order
\* The first view, in views.values() order, whose view_dependencies raises.
FirstBadView ==
    IF \E v \in ViewNames : view_dependencies(v).err # "none"
    THEN CHOOSE v \in ViewNames :
             /\ view_dependencies(v).err # "none"
             /\ \A u \in 1..(v - 1) : view_dependencies(u).err = "none"
    ELSE NoView

Raise(kind, view, stage) ==
    /\ exc' = kind
    /\ exc_view' = view
    /\ exc_stage' = stage

\* An exception that leaves trigger_all: the run ends, the caller sees it.
Propagate(kind, view, stage) ==
    /\ Raise(kind, view, stage)
    /\ pc' = "done"
    /\ outcome' = "raised"
    /\ raised' = kind

\* The adjacency list of a view is its dependency set in the iteration order
\* of a Python set of objects, which is arbitrary.
BuildAdjacency ==
    /\ pc = "adjacency"
    /\ FirstBadView = NoView
    /\ \E adj \in [ViewNames -> UNION {Perms(view_dependencies(v).deps) :
                                           v \in ViewNames}] :
           /\ \A v \in ViewNames : adj[v] \in Perms(view_dependencies(v).deps)
           /\ adjacency_lists' = adj
    /\ pc' = "entry"
    /\ UNCHANGED <<views, ordered_view_names, permanent_visit_set,
                   temporary_visit_set, stack, entry_i, view_name_order,
                   loop_i, transaction, view_vars, db_vars, sql_log, exc_vars,
                   end_vars, runs, hist_vars>>

\* Faulty variant of BuildAdjacencyRaise: a view whose references cannot be
\* resolved is left without edges, and the failure is deferred to execution.
BuildAdjacencyDeferred ==
    /\ pc = "adjacency"
    /\ FirstBadView # NoView
    /\ adjacency_lists' = [v \in ViewNames |-> <<>>]
    /\ pc' = "entry"
    /\ UNCHANGED <<views, ordered_view_names, permanent_visit_set,
                   temporary_visit_set, stack, entry_i, view_name_order,
                   loop_i, transaction, view_vars, db_vars, sql_log, exc_vars,
                   end_vars, runs, hist_vars>>

BuildAdjacencyRaise ==
    /\ pc = "adjacency"
    /\ FirstBadView # NoView
    /\ Propagate(view_dependencies(FirstBadView).err, FirstBadView, "adjacency")
    /\ UNCHANGED <<views, topo_vars, view_name_order, loop_i, transaction,
                   view_vars, db_vars, sql_log, runs, hist_vars>>

Top == stack[Len(stack)]
Pop == SubSeq(stack, 1, Len(stack) - 1)

\* Faulty variant of InsertFront: the name is appended, not inserted in front.
InsertBack(list, view_name) == Append(list, view_name)

\* ordered_view_names.insert(0, view_name)
InsertFront(list, view_name) == <<view_name>> \o list

\* ordered_view_names.reverse()
RECURSIVE Reverse(_)
Reverse(list) ==
    IF list = <<>> THEN <<>> ELSE Append(Reverse(Tail(list)), Head(list))

topo_frame == <<views, adjacency_lists, view_name_order, loop_i, transaction,
                view_vars, db_vars, sql_log, runs, hist_vars>>

\* for view in self.views.values(): if view.view_name in permanent_visit_set: pass
EntryPass ==
    /\ pc = "entry" /\ stack = <<>>
    /\ entry_i <= Len(views)
    /\ entry_i \in permanent_visit_set
    /\ entry_i' = entry_i + 1
    /\ UNCHANGED <<topo_frame, ordered_view_names, permanent_visit_set,
                   temporary_visit_set, stack, pc, exc_vars, end_vars>>

\* ... else: visit(view.view_name)
EntryVisit ==
    /\ pc = "entry" /\ stack = <<>>
    /\ entry_i <= Len(views)
    /\ entry_i \notin permanent_visit_set
    /\ stack' = <<[view_name |-> entry_i, j |-> 0]>>
    /\ entry_i' = entry_i + 1
    /\ UNCHANGED <<topo_frame, ordered_view_names, permanent_visit_set,
                   temporary_visit_set, pc, exc_vars, end_vars>>

\* visit: if view_name in permanent_visit_set: return
VisitPermanent ==
    /\ pc = "entry" /\ stack # <<>>
    /\ Top.j = 0
    /\ Top.view_name \in permanent_visit_set
    /\ stack' = Pop
    /\ UNCHANGED <<topo_frame, ordered_view_names, permanent_visit_set,
                   temporary_visit_set, entry_i, pc, exc_vars, end_vars>>

\* Faulty variant of VisitCycle: a view met again on the recursion path is taken for
\* visited, and visit returns.
VisitCycleIgnored ==
    /\ pc = "entry" /\ stack # <<>>
    /\ Top.j = 0
    /\ Top.view_name \notin permanent_visit_set
    /\ Top.view_name \in temporary_visit_set
    /\ stack' = Pop
    /\ UNCHANGED <<topo_frame, ordered_view_names, permanent_visit_set,
                   temporary_visit_set, entry_i, pc, exc_vars, end_vars>>

\* visit: if view_name in temporary_visit_set: raise Exception(...)
VisitCycle ==
    /\ pc = "entry" /\ stack # <<>>
    /\ Top.j = 0
    /\ Top.view_name \notin permanent_visit_set
    /\ Top.view_name \in temporary_visit_set
    /\ Propagate("CircularDependency", Top.view_name, "visit")
    /\ UNCHANGED <<topo_frame, topo_vars>>

\* visit: temporary_visit_set.add(view_name)
VisitMark ==
    /\ pc = "entry" /\ stack # <<>>
    /\ Top.j = 0
    /\ Top.view_name \notin permanent_visit_set
    /\ Top.view_name \notin temporary_visit_set
    /\ temporary_visit_set' = temporary_visit_set \cup {Top.view_name}
    /\ stack' = Append(Pop, [Top EXCEPT !.j = 1])
    /\ UNCHANGED <<topo_frame, ordered_view_names, permanent_visit_set,
                   entry_i, pc, exc_vars, end_vars>>

\* visit: for adjacent_view_name in adjacency_lists[view_name]: visit(...)
VisitAdjacent ==
    /\ pc = "entry" /\ stack # <<>>
    /\ Top.j >= 1
    /\ Top.j <= Len(adjacency_lists[Top.view_name])
    /\ stack' = Append(Append(Pop, [Top EXCEPT !.j = Top.j + 1]),
                       [view_name |-> adjacency_lists[Top.view_name][Top.j],
                        j |-> 0])
    /\ UNCHANGED <<topo_frame, ordered_view_names, permanent_visit_set,
                   temporary_visit_set, entry_i, pc, exc_vars, end_vars>>

\* Faulty variant of VisitFinish: the view is not added to permanent_visit_set.
VisitFinishUnmarked ==
    /\ pc = "entry" /\ stack # <<>>
    /\ Top.j > Len(adjacency_lists[Top.view_name])
    /\ temporary_visit_set' = temporary_visit_set \ {Top.view_name}
    /\ ordered_view_names' = InsertFront(ordered_view_names, Top.view_name)
    /\ stack' = Pop
    /\ UNCHANGED <<topo_frame, permanent_visit_set, entry_i, pc, exc_vars,
                   end_vars>>

\* visit: temporary_visit_set.remove; permanent_visit_set.add; insert(0, ...)
VisitFinish ==
    /\ pc = "entry" /\ stack # <<>>
    /\ Top.j > Len(adjacency_lists[Top.view_name])
    /\ temporary_visit_set' = temporary_visit_set \ {Top.view_name}
    /\ permanent_visit_set' = permanent_visit_set \cup {Top.view_name}
    /\ ordered_view_names' = InsertFront(ordered_view_names, Top.view_name)
    /\ stack' = Pop
    /\ UNCHANGED <<topo_frame, entry_i, pc, exc_vars, end_vars>>

\* Faulty variant of ReturnedOrder: the final reverse() is left out.
ReturnedUnreversed(list) == list

\* The value view_topological_order returns.
ReturnedOrder(list) == Reverse(list)

\* Faulty variant of EntryBreak: `done` is found cleared after the pass and the
\* while loop starts another pass over the views.
EntryRestart ==
    /\ pc = "entry" /\ stack = <<>>
    /\ entry_i > Len(views)
    /\ entry_i' = 1
    /\ UNCHANGED <<topo_frame, ordered_view_names, permanent_visit_set,
                   temporary_visit_set, stack, pc, exc_vars, end_vars>>

\* `done` is still True after the pass: break, reverse, return to trigger_all.
EntryBreak ==
    /\ pc = "entry" /\ stack = <<>>
    /\ entry_i > Len(views)
    /\ view_name_order' = ReturnedOrder(ordered_view_names)
    /\ pc' = "connect"
    /\ UNCHANGED <<views, topo_vars, loop_i, transaction, view_vars, db_vars,
                   sql_log, exc_vars, end_vars, runs, hist_vars>>

NextOrder ==
    \/ BuildAdjacency
    \/ BuildAdjacencyRaise
    \/ EntryPass
    \/ EntryVisit
    \/ VisitPermanent
    \/ VisitCycle
    \/ VisitMark
    \/ VisitAdjacent
    \/ VisitFinish
    \/ EntryBreak

\* ------------------------------------------------ trigger-value store
TriggerValues == {PyNone} \cup (1..MaxTrigger)

NoFile == [file |-> FALSE, data |-> PyNone]

\* trigger_value.setter: pickle.dump(x, file)
PickleDump(x) == [file |-> TRUE, data |-> x]

\* trigger_value getter: pickle.load(file), None on FileNotFoundError
trigger_value(v) == IF store[v].file THEN store[v].data ELSE PyNone

\* ------------------------------------------- LookerContext.trigger_all
CurrentView == view_name_order[loop_i]

Issue(stmt, v) == sql_log' = Append(sql_log, [stmt |-> stmt, view |-> v])

\* An exception raised inside trigger_all's try block: control goes to its
\* except clause (through trigger_view's own, which logs and re-raises).
Caught(kind, v, stage) ==
    /\ Raise(kind, v, stage)
    /\ pc' = "except"

Fault == env_fault' = TRUE

hist_frame == <<written, observed, store0, tables0>>

\* with self.engine.connect() as connection
Connect ==
    /\ pc = "connect"
    /\ pc' = "create_schema"
    /\ UNCHANGED <<views, topo_vars, view_name_order, loop_i, transaction,
                   view_vars, db_vars, sql_log, exc_vars, end_vars, runs,
                   hist_vars>>

\* engine.connect() raises, outside the try block
ConnectFail ==
    /\ pc = "connect"
    /\ Propagate("OperationalError", NoView, "connect")
    /\ Fault
    /\ UNCHANGED <<views, topo_vars, view_name_order, loop_i, transaction,
                   view_vars, db_vars, sql_log, runs, status, hist_frame>>

\* self.create_looker_scratch_schema(connection)
CreateSchema ==
    /\ pc = "create_schema"
    /\ Issue("create_schema", NoView)
    /\ loop_i' = 1
    /\ pc' = "loop"
    /\ UNCHANGED <<views, topo_vars, view_name_order, transaction, view_vars,
                   db_vars, exc_vars, end_vars, runs, hist_vars>>

CreateSchemaFail ==
    /\ pc = "create_schema"
    /\ Issue("create_schema", NoView)
    /\ Caught("DatabaseError", NoView, "create_schema")
    /\ Fault
    /\ UNCHANGED <<views, topo_vars, view_name_order, loop_i, transaction,
                   view_vars, db_vars, end_vars, runs, status, hist_frame>>

\* Faulty variant of LoopContinue: the loop does not filter, and a view that is
\* not a persisted derived table gets a transaction and is checked.
LoopContinueProcess ==
    /\ pc = "loop"
    /\ loop_i <= Len(view_name_order)
    /\ ~is_persisted_derived_table(view_name_order[loop_i])
    /\ transaction' = "active"
    /\ tx_tables' = tables
    /\ has_table' = "unbound"
    /\ latest_trigger_value' = Unbound
    /\ status' = [status EXCEPT ![view_name_order[loop_i]] = "checking"]
    /\ pc' = "has_table"
    /\ UNCHANGED <<views, topo_vars, view_name_order, loop_i, tables, store,
                   sql_log, exc_vars, end_vars, runs, written, observed,
                   store0, tables0, env_fault>>

\* if not view.is_persisted_derived_table: continue
LoopContinue ==
    /\ pc = "loop"
    /\ loop_i <= Len(view_name_order)
    /\ ~is_persisted_derived_table(CurrentView)
    /\ loop_i' = loop_i + 1
    /\ UNCHANGED <<views, topo_vars, pc, view_name_order, transaction,
                   view_vars, db_vars, sql_log, exc_vars, end_vars, runs,
                   hist_vars>>

\* Faulty variant of Begin: the scratch schema is created again for every view.
BeginCreateSchema ==
    /\ pc = "loop"
    /\ loop_i <= Len(view_name_order)
    /\ is_persisted_derived_table(CurrentView)
    /\ Issue("create_schema", NoView)
    /\ transaction' = "active"
    /\ tx_tables' = tables
    /\ has_table' = "unbound"
    /\ latest_trigger_value' = Unbound
    /\ status' = [status EXCEPT ![CurrentView] = "checking"]
    /\ pc' = "has_table"
    /\ UNCHANGED <<views, topo_vars, view_name_order, loop_i, tables, store,
                   exc_vars, end_vars, runs, hist_frame, env_fault>>

\* transaction = connection.begin(); trigger_view is entered
Begin ==
    /\ pc = "loop"
    /\ loop_i <= Len(view_name_order)
    /\ is_persisted_derived_table(CurrentView)
    /\ transaction' = "active"
    /\ tx_tables' = tables
    /\ has_table' = "unbound"
    /\ latest_trigger_value' = Unbound
    /\ status' = [status EXCEPT ![CurrentView] = "checking"]
    /\ pc' = "has_table"
    /\ UNCHANGED <<views, topo_vars, view_name_order, loop_i, tables, store,
                   sql_log, exc_vars, end_vars, runs, hist_frame, env_fault>>

\* connection.begin() raises: `transaction` keeps what it was bound to
BeginFail ==
    /\ pc = "loop"
    /\ loop_i <= Len(view_name_order)
    /\ is_persisted_derived_table(CurrentView)
    /\ Caught("DatabaseError", CurrentView, "begin")
    /\ Fault
    /\ UNCHANGED <<views, topo_vars, view_name_order, loop_i, transaction,
                   view_vars, db_vars, sql_log, end_vars, runs, status,
                   hist_frame>>

\* the loop is exhausted: the connection closes, trigger_all returns
LoopEnd ==
    /\ pc = "loop"
    /\ loop_i > Len(view_name_order)
    /\ pc' = "done"
    /\ outcome' = "returned"
    /\ UNCHANGED raised
    /\ UNCHANGED <<views, topo_vars, view_name_order, loop_i, transaction,
                   view_vars, db_vars, sql_log, exc_vars, runs, hist_vars>>

\* --------------------------------------------- LookerContext.trigger_view
Fail(kind, stage) ==
    /\ Caught(kind, CurrentView, stage)
    /\ status' = [status EXCEPT ![CurrentView] = "failed"]

\* trigger_view called on a persisted derived table: the guard passes
TriggerViewEnter ==
    /\ pc = "trigger_view"
    /\ is_persisted_derived_table(CurrentView)
    /\ status' = [status EXCEPT ![CurrentView] = "checking"]
    /\ pc' = "has_table"
    /\ UNCHANGED <<views, topo_vars, view_name_order, loop_i, transaction,
                   view_vars, db_vars, sql_log, exc_vars, end_vars, runs,
                   hist_frame, env_fault>>

\* Faulty variant of TriggerViewNotPersisted: the guard is missing and the
\* view is checked like a persisted derived table.
TriggerViewUnguarded ==
    /\ pc = "trigger_view"
    /\ ~is_persisted_derived_table(CurrentView)
    /\ status' = [status EXCEPT ![CurrentView] = "checking"]
    /\ pc' = "has_table"
    /\ UNCHANGED <<views, topo_vars, view_name_order, loop_i, transaction,
                   view_vars, db_vars, sql_log, exc_vars, end_vars, runs,
                   hist_frame, env_fault>>

\* if not view.is_persisted_derived_table: raise Exception(...), before the
\* try block: the exception goes straight to the caller of trigger_view
TriggerViewNotPersisted ==
    /\ pc = "trigger_view"
    /\ ~is_persisted_derived_table(CurrentView)
    /\ Propagate("NotPersisted", CurrentView, "trigger_view")
    /\ UNCHANGED <<views, topo_vars, view_name_order, loop_i, transaction,
                   view_vars, db_vars, sql_log, runs, hist_vars>>

\* has_table = self.has_table(connection, table, schema): row[0]
HasTable ==
    /\ pc = "has_table"
    /\ Issue("has_table", CurrentView)
    /\ has_table' = IF tx_tables[CurrentView] # 0 THEN "True" ELSE "False"
    /\ pc' = IF tx_tables[CurrentView] # 0 THEN "trigger_query" ELSE "regenerate"
    /\ UNCHANGED <<views, topo_vars, view_name_order, loop_i, transaction,
                   latest_trigger_value, db_vars, exc_vars, end_vars, runs,
                   hist_vars>>

\* the existence query raises, or has no row ('Has table sql returned no result')
HasTableRaise ==
    /\ pc = "has_table"
    /\ Issue("has_table", CurrentView)
    /\ \E kind \in {"DatabaseError", "NoResult"} : Fail(kind, "has_table")
    /\ Fault
    /\ UNCHANGED <<views, topo_vars, view_name_order, loop_i, transaction,
                   view_vars, db_vars, end_vars, runs, hist_frame>>

\* latest_trigger_value = self.get_latest_sql_trigger_value(...): row[0]
GetLatest ==
    /\ pc = "trigger_query"
    /\ Issue("trigger_query", CurrentView)
    /\ \E t \in TriggerValues :
           /\ latest_trigger_value' = t
           /\ observed' = [observed EXCEPT ![CurrentView] = t]
    /\ pc' = "compare"
    /\ UNCHANGED <<views, topo_vars, view_name_order, loop_i, transaction,
                   has_table, db_vars, exc_vars, end_vars, runs, status,
                   written, store0, tables0, env_fault>>

\* Faulty variant of GetLatestRaise: trigger_view logs the exception and does not
\* re-raise it, so trigger_all goes on to commit.
GetLatestRaiseSwallowed ==
    /\ pc = "trigger_query"
    /\ Issue("trigger_query", CurrentView)
    /\ \E kind \in {"DatabaseError", "NoValue"} :
           Raise(kind, CurrentView, "trigger_query")
    /\ status' = [status EXCEPT ![CurrentView] = "failed"]
    /\ pc' = "commit"
    /\ Fault
    /\ UNCHANGED <<views, topo_vars, view_name_order, loop_i, transaction,
                   view_vars, db_vars, end_vars, runs, hist_frame>>

\* the trigger query raises, or rowcount is 0 ('did not return any value')
GetLatestRaise ==
    /\ pc = "trigger_query"
    /\ Issue("trigger_query", CurrentView)
    /\ \E kind \in {"DatabaseError", "NoValue"} : Fail(kind, "trigger_query")
    /\ Fault
    /\ UNCHANGED <<views, topo_vars, view_name_order, loop_i, transaction,
                   view_vars, db_vars, end_vars, runs, hist_frame>>

\* if view.trigger_value is not None:
\*     if view.trigger_value == latest_trigger_value: return
Unchanged(stored, latest) == stored # PyNone /\ stored = latest

\* The table a regeneration of run r leaves: 0 is no table, 1 a table that
\* was there before the first run.
Rebuilt(r) == r + 1

\* Faulty variant of CompareFresh: the table is rebuilt although the stored trigger
\* value equals the latest one.
CompareFreshRebuild ==
    /\ pc = "compare"
    /\ Unchanged(trigger_value(CurrentView), latest_trigger_value)
    /\ Issue("regenerate", CurrentView)
    /\ tx_tables' = [tx_tables EXCEPT ![CurrentView] = Rebuilt(runs)]
    /\ status' = [status EXCEPT ![CurrentView] = "fresh"]
    /\ pc' = "commit"
    /\ UNCHANGED <<views, topo_vars, view_name_order, loop_i, transaction,
                   view_vars, tables, store, exc_vars, end_vars, runs,
                   hist_frame, env_fault>>

CompareFresh ==
    /\ pc = "compare"
    /\ Unchanged(trigger_value(CurrentView), latest_trigger_value)
    /\ status' = [status EXCEPT ![CurrentView] = "fresh"]
    /\ pc' = "commit"
    /\ UNCHANGED <<views, topo_vars, view_name_order, loop_i, transaction,
                   view_vars, db_vars, sql_log, exc_vars, end_vars, runs,
                   hist_frame, env_fault>>

CompareStale ==
    /\ pc = "compare"
    /\ ~Unchanged(trigger_value(CurrentView), latest_trigger_value)
    /\ pc' = "regenerate"
    /\ UNCHANGED <<views, topo_vars, view_name_order, loop_i, transaction,
                   view_vars, db_vars, sql_log, exc_vars, end_vars, runs,
                   hist_vars>>

\* self.regenerate_persisted_derived_table(connection, view)
Regenerate ==
    /\ pc = "regenerate"
    /\ Issue("regenerate", CurrentView)
    /\ tx_tables' = [tx_tables EXCEPT ![CurrentView] = Rebuilt(runs)]
    /\ status' = [status EXCEPT ![CurrentView] = "regenerated"]
    /\ pc' = "store"
    /\ UNCHANGED <<views, topo_vars, view_name_order, loop_i, transaction,
                   view_vars, tables, store, exc_vars, end_vars, runs,
                   hist_frame, env_fault>>

\* Faulty variant of RegenerateFail: the failure is handled inside the loop and the
\* loop goes on with the next view.
RegenerateFailContinue ==
    /\ pc = "regenerate"
    /\ Issue("regenerate", CurrentView)
    /\ Raise("DatabaseError", CurrentView, "regenerate")
    /\ status' = [status EXCEPT ![CurrentView] = "failed"]
    /\ transaction' = "rolled_back"
    /\ tx_tables' = tables
    /\ loop_i' = loop_i + 1
    /\ pc' = "loop"
    /\ Fault
    /\ UNCHANGED <<views, topo_vars, view_name_order, view_vars, tables,
                   store, end_vars, runs, hist_frame>>

\* rendering or executing the DROP/CREATE statement raises
RegenerateFail ==
    /\ pc = "regenerate"
    /\ Issue("regenerate", CurrentView)
    /\ Fail("DatabaseError", "regenerate")
    /\ Fault
    /\ UNCHANGED <<views, topo_vars, view_name_order, loop_i, transaction,
                   view_vars, db_vars, end_vars, runs, hist_frame>>

\* view.trigger_value = latest_trigger_value
StoreWrite ==
    /\ pc = "store"
    /\ latest_trigger_value # Unbound
    /\ store' = [store EXCEPT ![CurrentView] = PickleDump(latest_trigger_value)]
    /\ written' = written \cup {CurrentView}
    /\ pc' = "commit"
    /\ UNCHANGED <<views, topo_vars, view_name_order, loop_i, transaction,
                   view_vars, tables, tx_tables, sql_log, exc_vars, end_vars,
                   runs, status, observed, store0, tables0, env_fault>>

\* has_table was false, so latest_trigger_value was never assigned
StoreUnbound ==
    /\ pc = "store"
    /\ latest_trigger_value = Unbound
    /\ Fail("UnboundLocalError", "store")
    /\ UNCHANGED <<views, topo_vars, view_name_order, loop_i, transaction,
                   view_vars, db_vars, sql_log, end_vars, runs, hist_frame,
                   env_fault>>

\* open(self._pickle_path, 'wb') raises
StoreFail ==
    /\ pc = "store"
    /\ latest_trigger_value # Unbound
    /\ Fail("OSError", "store")
    /\ Fault
    /\ UNCHANGED <<views, topo_vars, view_name_order, loop_i, transaction,
                   view_vars, db_vars, sql_log, end_vars, runs, hist_frame>>

\* The terminal state of a view whose transaction committed.
Committed(s) == IF s = "fresh" THEN "skipped" ELSE "updated"

\* transaction.commit()
Commit ==
    /\ pc = "commit"
    /\ transaction' = "committed"
    /\ tables' = tx_tables
    /\ status' = [status EXCEPT ![CurrentView] = Committed(status[CurrentView])]
    /\ loop_i' = loop_i + 1
    /\ pc' = "loop"
    /\ UNCHANGED <<views, topo_vars, view_name_order, view_vars, tx_tables,
                   store, sql_log, exc_vars, end_vars, runs, hist_frame,
                   env_fault>>

CommitFail ==
    /\ pc = "commit"
    /\ Fail("DatabaseError", "commit")
    /\ Fault
    /\ UNCHANGED <<views, topo_vars, view_name_order, loop_i, transaction,
                   view_vars, db_vars, sql_log, end_vars, runs, hist_frame>>

\* ----------------------- trigger_all: except Exception: ... rollback()
\* `transaction` was never assigned: the handler itself raises
RollbackUnbound ==
    /\ pc = "except"
    /\ transaction = "unbound"
    /\ pc' = "done"
    /\ outcome' = "raised"
    /\ raised' = "UnboundLocalError"
    /\ UNCHANGED <<views, topo_vars, view_name_order, loop_i, transaction,
                   view_vars, db_vars, sql_log, exc_vars, runs, hist_vars>>

\* Faulty variant of RolledBack: the rollback undoes the whole run.
RolledBackRun(committed, working) == tables0

\* The warehouse after the open transaction is rolled back.
RolledBack(committed, working) == committed

\* the open transaction is rolled back; the handler ends and trigger_all
\* returns to its caller
Rollback ==
    /\ pc = "except"
    /\ transaction = "active"
    /\ transaction' = "rolled_back"
    /\ tx_tables' = RolledBack(tables, tx_tables)
    /\ tables' = RolledBack(tables, tx_tables)
    /\ pc' = "done"
    /\ outcome' = "returned"
    /\ UNCHANGED raised
    /\ UNCHANGED <<views, topo_vars, view_name_order, loop_i, view_vars,
                   store, sql_log, exc_vars, runs, hist_vars>>

\* rollback() itself raises; closing the connection discards the transaction
RollbackFail ==
    /\ pc = "except"
    /\ transaction = "active"
    /\ tx_tables' = tables
    /\ pc' = "done"
    /\ outcome' = "raised"
    /\ raised' = "DatabaseError"
    /\ Fault
    /\ UNCHANGED <<views, topo_vars, view_name_order, loop_i, transaction,
                   view_vars, tables, store, sql_log, exc_vars, runs, status,
                   hist_frame>>

\* begin() failed for a later view: `transaction` is still the previous
\* view's, already committed; rolling it back does nothing
RollbackCommitted ==
    /\ pc = "except"
    /\ transaction = "committed"
    /\ pc' = "done"
    /\ outcome' = "returned"
    /\ UNCHANGED raised
    /\ UNCHANGED <<views, topo_vars, view_name_order, loop_i, transaction,
                   view_vars, db_vars, sql_log, exc_vars, runs, hist_vars>>

\* ------------------------------------------------------------ the runs
\* The next invocation of trigger_all, on the same views, warehouse and store.
NextRun ==
    /\ pc = "done"
    /\ runs < MaxRuns
    /\ runs' = runs + 1
    /\ pc' = "adjacency"
    /\ adjacency_lists' = [v \in ViewNames |-> <<>>]
    /\ ordered_view_names' = <<>>
    /\ permanent_visit_set' = {}
    /\ temporary_visit_set' = {}
    /\ stack' = <<>>
    /\ entry_i' = 1
    /\ view_name_order' = <<>>
    /\ loop_i' = 1
    /\ transaction' = "unbound"
    /\ has_table' = "unbound"
    /\ latest_trigger_value' = Unbound
    /\ tx_tables' = tables
    /\ sql_log' = <<>>
    /\ exc' = "none"
    /\ exc_view' = NoView
    /\ exc_stage' = "none"
    /\ outcome' = "running"
    /\ raised' = "none"
    /\ status' = [v \in ViewNames |-> "pending"]
    /\ written' = {}
    /\ observed' = [v \in ViewNames |-> Unbound]
    /\ store0' = store
    /\ tables0' = tables
    /\ env_fault' = FALSE
    /\ UNCHANGED <<views, tables, store>>

\* --------------------------------------------------- initial states
\* The state after load_lookml: n views, no pickle files, and any subset of
\* the persisted derived tables already present in the warehouse.
Loaded(maxViews, m) ==
    /\ \E n \in 1..maxViews : views \in [1..n -> ViewObjects(1..maxViews, m)]
    /\ adjacency_lists = [v \in ViewNames |-> <<>>]
    /\ ordered_view_names = <<>>
    /\ permanent_visit_set = {}
    /\ temporary_visit_set = {}
    /\ stack = <<>>
    /\ entry_i = 1
    /\ pc = "adjacency"
    /\ view_name_order = <<>>
    /\ loop_i = 1
    /\ transaction = "unbound"
    /\ has_table = "unbound"
    /\ latest_trigger_value = Unbound
    /\ store = [v \in ViewNames |-> NoFile]
    /\ sql_log = <<>>
    /\ exc = "none"
    /\ exc_view = NoView
    /\ exc_stage = "none"
    /\ outcome = "running"
    /\ raised = "none"
    /\ runs = 1
    /\ status = [v \in ViewNames |-> "pending"]
    /\ written = {}
    /\ observed = [v \in ViewNames |-> Unbound]
    /\ store0 = store
    /\ env_fault = FALSE

Init ==
    /\ Loaded(RunViews, RunMarkers)
    /\ tables \in [ViewNames -> {0, 1}]
    /\ \A v \in ViewNames : ~is_persisted_derived_table(v) => tables[v] = 0
    /\ tx_tables = tables
    /\ tables0 = tables

InitOrder ==
    /\ Loaded(NumViews, MaxMarkers)
    /\ tables = [v \in ViewNames |-> 0]
    /\ tx_tables = tables
    /\ tables0 = tables

\* trigger_view(connection, view) called on its own, on any loaded view, by a
\* caller that has opened a transaction; the pickle file of the view may hold
\* any value an earlier run can have left.  view_name_order is the one view
\* passed in.
InitView ==
    /\ \E n \in 1..RunViews : views \in [1..n -> ViewObjects(1..RunViews, RunMarkers)]
    /\ adjacency_lists = [v \in ViewNames |-> <<>>]
    /\ ordered_view_names = <<>>
    /\ permanent_visit_set = {}
    /\ temporary_visit_set = {}
    /\ stack = <<>>
    /\ entry_i = 1
    /\ pc = "trigger_view"
    /\ \E v \in ViewNames :
           /\ view_name_order = <<v>>
           /\ \E f \in {NoFile} \cup {PickleDump(t) : t \in TriggerValues} :
                  store = [u \in ViewNames |-> IF u = v THEN f ELSE NoFile]
    /\ loop_i = 1
    /\ transaction = "active"
    /\ has_table = "unbound"
    /\ latest_trigger_value = Unbound
    /\ tables \in [ViewNames -> {0, 1}]
    /\ \A v \in ViewNames : ~is_persisted_derived_table(v) => tables[v] = 0
    /\ tx_tables = tables
    /\ tables0 = tables
    /\ sql_log = <<>>
    /\ exc = "none"
    /\ exc_view = NoView
    /\ exc_stage = "none"
    /\ outcome = "running"
    /\ raised = "none"
    /\ runs = 1
    /\ status = [v \in ViewNames |-> "pending"]
    /\ written = {}
    /\ observed = [v \in ViewNames |-> Unbound]
    /\ store0 = store
    /\ env_fault = FALSE

NextView ==
    \/ TriggerViewEnter
    \/ TriggerViewNotPersisted
    \/ HasTable
    \/ HasTableRaise
    \/ GetLatest
    \/ GetLatestRaise
    \/ CompareFresh
    \/ CompareStale
    \/ Regenerate
    \/ RegenerateFail
    \/ StoreWrite
    \/ StoreUnbound
    \/ StoreFail

Next ==
    \/ NextOrder
    \/ Connect
    \/ ConnectFail
    \/ CreateSchema
    \/ CreateSchemaFail
    \/ LoopContinue
    \/ Begin
    \/ BeginFail
    \/ LoopEnd
    \/ HasTable
    \/ HasTableRaise
    \/ GetLatest
    \/ GetLatestRaise
    \/ CompareFresh
    \/ CompareStale
    \/ Regenerate
    \/ RegenerateFail
    \/ StoreWrite
    \/ StoreUnbound
    \/ StoreFail
    \/ Commit
    \/ CommitFail
    \/ RollbackUnbound
    \/ Rollback
    \/ RollbackFail
    \/ RollbackCommitted
    \/ NextRun

Spec == Init /\ [][Next]_vars

SpecOrder == InitOrder /\ [][NextOrder]_vars

SpecView == InitView /\ [][NextView]_vars

\* view_topological_order is sequential code: while a step is enabled, one is
\* taken.
SpecOrderFair == InitOrder /\ [][NextOrder]_vars /\ WF_vars(NextOrder)

TypeOK ==
    /\ pc \in {"adjacency", "entry", "connect", "create_schema", "loop",
               "trigger_view", "has_table", "trigger_query", "compare", "regenerate", "store",
               "commit", "except", "done"}
    /\ outcome \in {"running", "returned", "raised"}
    /\ transaction \in {"unbound", "active", "committed", "rolled_back"}
    /\ runs \in 1..MaxRuns

\* ------------------------------------------------ properties: vocabulary
\* The dependency graph the loaded views define.
Deps(v) == view_dependencies(v).deps

GraphDefined == FirstBadView = NoView

RECURSIVE Reach(_, _)
Reach(S, k) ==
    IF k = 0 THEN S ELSE Reach(S \cup UNION {Deps(u) : u \in S}, k - 1)

TransitiveDeps(v) == Reach(Deps(v), Len(views))

HasCycle == \E v \in ViewNames : v \in TransitiveDeps(v)

Position(order, v) == CHOOSE i \in 1..Len(order) : order[i] = v

OrderReturned == pc \notin {"adjacency", "entry"} /\ exc_stage \notin {"adjacency", "visit"}

ViewStages == {"has_table", "trigger_query", "regenerate", "store", "commit"}

\* A view failed while it was being processed, and control is past the failure.
ViewFailed(v) == exc_view = v /\ exc_stage \in ViewStages /\ pc \in {"except", "done"}

Issued(stmt, v) == {i \in 1..Len(sql_log) : sql_log[i] = [stmt |-> stmt, view |-> v]}

PersistedInOrder == {i \in 1..Len(view_name_order) :
                        is_persisted_derived_table(view_name_order[i])}

FirstPersisted(v) ==
    /\ OrderReturned
    /\ \E i \in PersistedInOrder :
           /\ view_name_order[i] = v
           /\ \A j \in PersistedInOrder : i <= j

LaterPersisted(v) ==
    {view_name_order[j] : j \in {i \in PersistedInOrder : i > Position(view_name_order, v)}}

\* ------------------------------------------------------------- claims
\* C1: write-after-commit: in every reachable state, a view whose stored
\* trigger value was written in this run has had the transaction of its
\* regeneration committed.
C1_WriteAfterCommit == \A v \in written : status[v] = "updated"

\* C2: first materialization: when a run without any warehouse or file-system
\* fault has processed a persisted derived table that had neither a table nor
\* a store record, it has not queried the trigger, the view is UPDATED, its
\* table is present and its trigger value is stored.
C2_FirstMaterialization ==
    \A v \in ViewNames :
        (/\ pc = "done"
         /\ ~env_fault
         /\ tables0[v] = 0
         /\ ~store0[v].file
         /\ status[v] # "pending")
        => (/\ Issued("trigger_query", v) = {}
            /\ Issued("regenerate", v) # {}
            /\ status[v] = "updated"
            /\ tables[v] # 0
            /\ store[v].file)

\* C3: whenever view_topological_order returns, every view stands in the
\* returned order strictly after every view it transitively depends on; and
\* the cycle error is raised only for a graph that has a cycle.
C3_TopologicalOrder ==
    /\ OrderReturned =>
           \A v \in ViewNames : \A d \in TransitiveDeps(v) :
               /\ v \in Range(view_name_order)
               /\ d \in Range(view_name_order)
               /\ Position(view_name_order, d) < Position(view_name_order, v)
    /\ exc = "CircularDependency" => HasCycle

\* C3 witness: an order was returned for a graph in which a view loaded first
\* depends, only transitively, on a view loaded later.
C3_Witness ==
    /\ OrderReturned
    /\ \E v, d \in ViewNames : v < d /\ d \in TransitiveDeps(v) \ Deps(v)

\* C4: when the dependency graph has a cycle, no SQL statement is ever issued,
\* control never gets past view_topological_order, and the run ends with the
\* circular-dependency exception, raised to the caller, naming a view that
\* lies on a cycle.
C4_CycleFailsBeforeSql ==
    (GraphDefined /\ HasCycle) =>
        /\ sql_log = <<>>
        /\ pc \in {"adjacency", "entry", "done"}
        /\ pc = "done" =>
               /\ outcome = "raised"
               /\ raised = "CircularDependency"
               /\ exc_view \in TransitiveDeps(exc_view)

\* C4 witness: a run ended on a cycle of two views (A -> B -> A).
C4_Witness ==
    /\ pc = "done"
    /\ raised = "CircularDependency"
    /\ exc_view \notin Deps(exc_view)
    /\ exc_view \in TransitiveDeps(exc_view)

\* C5: trigger-value round trip: once a view was regenerated by an earlier run
\* and the store holds the value T that is queried now, the check of a view
\* whose table exists never decides to regenerate.
C5_RoundTrip ==
    \A v \in ViewNames :
        ~(/\ pc = "regenerate"
          /\ CurrentView = v
          /\ has_table = "True"
          /\ tables0[v] > 1
          /\ store[v] = PickleDump(latest_trigger_value))

\* C6: once the regeneration SQL of the first persisted derived table of the
\* order has raised, the run is over: no statement for any other view was or
\* is issued, the regeneration was attempted exactly once, and the stored
\* trigger value of the failing view is the one from before the run.
C6_FirstRegenerationFails ==
    \A v \in ViewNames :
        (exc_stage = "regenerate" /\ exc_view = v /\ FirstPersisted(v)) =>
            /\ pc \in {"except", "done"}
            /\ \A i \in 1..Len(sql_log) : sql_log[i].view \in {NoView, v}
            /\ Cardinality(Issued("regenerate", v)) = 1
            /\ \A u \in ViewNames \ {v} : status[u] = "pending"
            /\ store[v] = store0[v]

\* C6 witness: the first persisted derived table, which had a stored trigger
\* value, failed to regenerate while a later one was waiting.
C6_Witness ==
    /\ pc = "done"
    /\ exc_stage = "regenerate"
    /\ FirstPersisted(exc_view)
    /\ store0[exc_view].file
    /\ LaterPersisted(exc_view) # {}

\* C7: a run in which the processing of a view failed never returns normally:
\* it ends with an exception raised to its caller.
C7_FailurePropagates ==
    (pc = "done" /\ exc_view # NoView /\ exc_stage \in ViewStages) =>
        outcome = "raised"

\* C8: when a view fails, its committed table is the one from before the run,
\* and every view updated earlier in the run keeps the table this run built
\* and the trigger value this run observed for it.
C8_PartialProgress ==
    \A v \in ViewNames :
        ViewFailed(v) =>
            /\ tables[v] = tables0[v]
            /\ \A u \in ViewNames :
                   status[u] = "updated" =>
                       /\ tables[u] = Rebuilt(runs)
                       /\ store[u] = PickleDump(observed[u])

\* C8 witness: a view failed after its regeneration SQL had run, in a run that
\* had already updated another view.
C8_Witness ==
    /\ pc = "done"
    /\ exc_stage \in {"store", "commit"}
    /\ \E u \in ViewNames : status[u] = "updated"

\* C9: staleness verdict: a view whose table exists is skipped exactly when the
\* store holds a record for it and the recorded value equals the queried one.
C9_StalenessVerdict ==
    /\ (pc = "regenerate" /\ has_table = "True") =>
           ~(store[CurrentView].file
             /\ store[CurrentView].data = latest_trigger_value)
    /\ (pc = "commit" /\ status[CurrentView] = "fresh") =>
           /\ has_table = "True"
           /\ store[CurrentView].file
           /\ store[CurrentView].data = latest_trigger_value

\* C10: once the trigger query of a view has returned no row, the run is over:
\* the view's regeneration SQL is not executed, its stored trigger value is the
\* one from before the run, and no later view is processed.
C10_EmptyTriggerQuery ==
    \A v \in ViewNames :
        (exc = "NoValue" /\ exc_view = v) =>
            /\ exc_stage = "trigger_query"
            /\ pc \in {"except", "done"}
            /\ status[v] = "failed"
            /\ Issued("regenerate", v) = {}
            /\ sql_log[Len(sql_log)] = [stmt |-> "trigger_query", view |-> v]
            /\ store[v] = store0[v]
            /\ \A u \in LaterPersisted(v) : status[u] = "pending"

\* C10 witness: the trigger query of a view with a stored trigger value came
\* back empty while a later persisted derived table was waiting.
C10_Witness ==
    /\ pc = "done"
    /\ exc = "NoValue"
    /\ store0[exc_view].file
    /\ LaterPersisted(exc_view) # {}

\* The views named by the ${view.field} markers of a view's template.
Markers(v) == UNION {Range(views[v].sql[i]) : i \in 1..Len(views[v].sql)}

UnresolvedReference ==
    \E v \in ViewNames : is_persisted_derived_table(v) /\ ~(Markers(v) \subseteq ViewNames)

\* C11: when the template of a persisted derived table names a view that is
\* not loaded, no statement is ever issued to the warehouse, no view is ever
\* processed, control never gets past the building of the edges, and the run
\* ends with the lookup (or unpacking) exception of view_dependencies raised to
\* the caller.
C11_UnresolvedReference ==
    UnresolvedReference =>
        /\ sql_log = <<>>
        /\ \A v \in ViewNames : status[v] = "pending"
        /\ pc \in {"adjacency", "done"}
        /\ pc = "done" =>
               /\ outcome = "raised"
               /\ exc_stage = "adjacency"
               /\ raised \in {"KeyError", "ValueError"}

\* C11 witness: the run ended on the unknown reference of a view loaded after
\* a persisted derived table whose own reference was resolved.
C11_Witness ==
    /\ pc = "done"
    /\ raised = "KeyError"
    /\ \E u \in 1..(exc_view - 1) :
           is_persisted_derived_table(u) /\ views[u].sql # <<>>

\* C12: reference extraction: once the edges have been built, view_dependencies
\* of every persisted derived table whose markers all name loaded views is,
\* without error, exactly the set of the views its markers name, on whichever
\* lines the markers stand.
C12_ReferenceExtraction ==
    pc # "adjacency" =>
        \A v \in ViewNames :
            (is_persisted_derived_table(v) /\ Markers(v) \subseteq ViewNames) =>
                view_dependencies(v) = [err |-> "none", deps |-> Markers(v)]

IsHasTable(e) == e.stmt = "has_table"

\* The views whose processing was started in this run, in that order.
Processed ==
    [i \in 1..Len(SelectSeq(sql_log, IsHasTable)) |->
        SelectSeq(sql_log, IsHasTable)[i].view]

\* The persisted derived tables of the returned order, in that order.
PersistedOrder == SelectSeq(view_name_order, is_persisted_derived_table)

CleanRun == pc = "done" /\ outcome = "returned" /\ exc = "none"

\* C13 as stated: the order view_topological_order returns holds persisted
\* derived tables only.
C13_OnlyPersistedInOrder ==
    OrderReturned =>
        \A i \in 1..Len(view_name_order) :
            is_persisted_derived_table(view_name_order[i])

\* C13 amended: the returned order holds every loaded view; the loop of
\* trigger_all skips those that are not persisted derived tables, so only
\* persisted derived tables are processed or named in a statement, and a run
\* without failure processes exactly the persisted derived tables of the
\* order, in that order.
C13_OnlyPersistedProcessed ==
    /\ OrderReturned => Range(view_name_order) = ViewNames
    /\ \A v \in ViewNames : status[v] # "pending" => is_persisted_derived_table(v)
    /\ \A i \in 1..Len(sql_log) :
           sql_log[i].view # NoView => is_persisted_derived_table(sql_log[i].view)
    /\ CleanRun => Processed = PersistedOrder

\* C13 witness: views [base, der1 referencing base]: the returned order is
\* [base, der1] and the run processed der1 alone.
C13_Witness ==
    /\ CleanRun
    /\ Len(views) = 2
    /\ ~is_derived_table(1)
    /\ is_persisted_derived_table(2)
    /\ Deps(2) = {1}
    /\ view_name_order = <<1, 2>>
    /\ Processed = <<2>>

Finished(v) == status[v] \in {"skipped", "updated"}

InProgress == {v \in ViewNames : status[v] \in {"checking", "fresh", "regenerated"}}

\* C14: a view whose processing has started has every persisted derived table
\* it depends on, directly or transitively, finished as SKIPPED or UPDATED in
\* this run; at most one view is being processed at a time, inside the one
\* open transaction.
C14_DependenciesFirst ==
    /\ \A v \in ViewNames :
           status[v] # "pending" =>
               \A d \in TransitiveDeps(v) :
                   is_persisted_derived_table(d) => Finished(d)
    /\ Cardinality(InProgress) <= 1
    /\ InProgress # {} => transaction = "active"

\* C14 witness: a view loaded before the persisted derived table it references
\* has run its regeneration SQL after that table was finished.
C14_Witness ==
    \E v, d \in ViewNames :
        /\ v < d
        /\ status[v] = "regenerated"
        /\ d \in Deps(v)
        /\ is_persisted_derived_table(d)
        /\ Finished(d)

\* C15: whenever control is in the except clause of trigger_all, where
\* transaction.rollback() is invoked, `transaction` is a transaction opened in
\* this run that is still open.
C15_RollbackOnOpenTransaction == pc = "except" => transaction = "active"

\* C16: trigger_view regenerates persisted derived tables only: no DROP/CREATE
\* statement is ever issued for a base table or for a derived table without
\* sql_trigger_value, and called on such a view it issues no statement at all,
\* leaves the warehouse and the store as they were, and ends by raising.
C16_OnlyPersistedRegenerated ==
    /\ \A i \in 1..Len(sql_log) :
           sql_log[i].stmt = "regenerate" =>
               is_persisted_derived_table(sql_log[i].view)
    /\ ~is_persisted_derived_table(CurrentView) =>
           /\ sql_log = <<>>
           /\ tx_tables = tables0
           /\ store = store0
           /\ pc \in {"trigger_view", "done"}
           /\ pc = "done" => (outcome = "raised" /\ raised = "NotPersisted")

\* C16 witness: trigger_view was called on a derived table without
\* sql_trigger_value whose template carries a marker, and has raised.
C16_Witness ==
    /\ pc = "done"
    /\ raised = "NotPersisted"
    /\ is_derived_table(CurrentView)
    /\ views[CurrentView].sql # <<>>

\* The statements of this run that name view v, in the order issued.
StatementsOf(v) ==
    LET OfView(e) == e.view = v
        log == SelectSeq(sql_log, OfView)
    IN  [i \in 1..Len(log) |-> log[i].stmt]

\* C17: a view found fresh (stored trigger value equal to the latest one) has
\* had only its existence check and its trigger query issued, never its
\* regeneration SQL; its table, in the warehouse and inside the transaction,
\* and its stored trigger value are what they were when the run began; its
\* transaction is open until it commits, and once it has committed the loop
\* stands past the view.
C17_FreshChangesNothing ==
    \A v \in ViewNames :
        status[v] \in {"fresh", "skipped"} =>
            /\ StatementsOf(v) = <<"has_table", "trigger_query">>
            /\ tables[v] = tables0[v]
            /\ tables[v] # 0
            /\ store[v] = store0[v]
            /\ v \notin written
            /\ status[v] = "fresh" =>
                   /\ pc = "commit" /\ CurrentView = v
                   /\ transaction = "active"
                   /\ tx_tables = tables
            /\ status[v] = "skipped" =>
                   /\ loop_i > Position(view_name_order, v)
                   /\ pc = "loop" /\ loop_i = Position(view_name_order, v) + 1
                          => transaction = "committed"

\* C17 witness: a view was skipped as fresh and the loop went on to the next
\* persisted derived table of the order, now being checked.
C17_Witness ==
    \E v, w \in ViewNames :
        /\ status[v] = "skipped"
        /\ status[w] = "checking"
        /\ Position(view_name_order, w) > Position(view_name_order, v)

SchemaStatements == Issued("create_schema", NoView)

\* The run ended before a connection was there: the order could not be
\* computed, or engine.connect() failed.
EndedBeforeConnected ==
    pc = "done" /\ exc_stage \in {"adjacency", "visit", "connect"}

\* C18 as stated: every run issues the scratch-schema creation statement
\* exactly once, ahead of every statement of a view.
C18_SchemaOncePerRun ==
    pc = "done" =>
        /\ Cardinality(SchemaStatements) = 1
        /\ sql_log[1].stmt = "create_schema"

\* C18 amended: no run issues the scratch-schema creation statement more than
\* once; it is the first statement of every run that issues any statement; a
\* run that got its connection has issued it exactly once by the time it ends,
\* whatever the number of views; a run that ended before it was connected has
\* issued no statement at all.
C18_SchemaOncePerConnectedRun ==
    /\ Cardinality(SchemaStatements) <= 1
    /\ sql_log # <<>> => sql_log[1] = [stmt |-> "create_schema", view |-> NoView]
    /\ (pc = "done" /\ ~EndedBeforeConnected) => Cardinality(SchemaStatements) = 1
    /\ EndedBeforeConnected => sql_log = <<>>

\* C18 witness: a run over two persisted derived tables has ended without
\* failure, having checked both after the one schema statement.
C18_Witness ==
    /\ CleanRun
    /\ Len(Processed) >= 2
    /\ SchemaStatements = {1}

\* C19 as stated: view_topological_order ends by returning an order or by
\* raising the cycle error.
C19_OrderOrCycleError ==
    pc = "done" => raised = "CircularDependency"

\* C19 amended: view_topological_order terminates on every set of loaded
\* views, by returning an order, by raising the cycle error from visit, or by
\* raising KeyError/ValueError while the edges are built; the entry loop only
\* moves forward over the views, and when the order is returned it has made
\* exactly one pass, with no visit left on the recursion stack.
C19_TerminatesAfterOnePass ==
    /\ <>(pc \in {"connect", "done"})
    /\ [](pc = "done" =>
            \/ raised = "CircularDependency" /\ exc_stage = "visit"
            \/ raised \in {"KeyError", "ValueError"} /\ exc_stage = "adjacency")
    /\ [](pc = "connect" => entry_i = Len(views) + 1 /\ stack = <<>>)
    /\ [][entry_i' = entry_i + 1]_entry_i

\* C19 witness: three views, the first referencing the second and the second
\* the third: the entry loop visited the first, the recursion the other two,
\* the loop passed over them, and the order was returned.
C19_Witness ==
    /\ pc = "connect"
    /\ Len(views) = NumViews
    /\ 2 \in Deps(1)
    /\ 3 \in Deps(2)
    /\ entry_i = NumViews + 1

\* The positions of the returned order that hold view v.
Occurrences(v) == {i \in 1..Len(view_name_order) : view_name_order[i] = v}

\* C20: once view_topological_order has returned, every loaded view, and so
\* every persisted derived table, stands in the order exactly once, the
\* temporary-visit set is empty and the permanent-visit set holds every loaded
\* view; a run that ends without failure has checked each persisted derived
\* table exactly once and finished it as SKIPPED or UPDATED.
C20_EachViewOnce ==
    /\ OrderReturned =>
           /\ \A v \in ViewNames : Cardinality(Occurrences(v)) = 1
           /\ Len(view_name_order) = Len(views)
           /\ temporary_visit_set = {}
           /\ permanent_visit_set = ViewNames
           /\ stack = <<>>
    /\ CleanRun =>
           \A v \in ViewNames :
               is_persisted_derived_table(v) =>
                   /\ Cardinality(Issued("has_table", v)) = 1
                   /\ Finished(v)

\* C20 witness: three persisted derived tables, the third referenced by the
\* other two and so reached twice by visit; the run ended without failure.
C20_Witness ==
    /\ CleanRun
    /\ Len(views) = 3
    /\ \A v \in ViewNames : is_persisted_derived_table(v)
    /\ Deps(1) = {3}
    /\ Deps(2) = {3}

====
